---- MODULE Spec2Model ----
(***************************************************************************)
(* A model of the mcp-ui repository:                                       *)
(*   - the two stdio tool servers (mcp-servers/calculator-server.py and    *)
(*     mcp-servers/local-server.py): one read loop answering JSON-RPC      *)
(*     request lines (ServerSpec);                                         *)
(*   - the backend's MCPManager and its observability endpoints            *)
(*     (CatalogSpec);                                                      *)
(*   - chat sessions: AgentWrapper.process_query and the tool-calling loop *)
(*     it delegates to (Spec);                                             *)
(*   - the HTTP layer of backend/main.py with the Logger and the           *)
(*     PerformanceMonitor of backend/utils/logger.py: POST /api/chat       *)
(*     (ChatSpec) and GET /api/logs (LogSpec).                             *)
(***************************************************************************)
EXTENDS Integers, Sequences, FiniteSets, TLC

VARIABLES
    \* ---- a tool server process (ServerSpec)
    prog,        \* which script runs: "calculator" or "local"
    eof,         \* sys.stdin is exhausted: the for loop has ended
    crashed,     \* an exception left main(): the process died
    served,      \* number of lines read so far
    lastLine,    \* the line read by the latest iteration of the loop
    lastOut,     \* the messages send_message wrote during that iteration
    stdinErrors, \* the error handler sys.stdin decodes its bytes with
    listings,    \* stdout so far, reduced to the tool sets of its tools/list results
    \* ---- MCPManager and its endpoints (CatalogSpec)
    lifecycle,   \* server name -> state of its subprocess
    initialized, \* main.py's global flag
    toolsSeen,   \* latest answer of GET /api/tools, with the lifecycle it was given in
    statusSeen,  \* latest answer of GET /api/servers, with the lifecycle it was given in
    \* ---- chat sessions (Spec)
    pc,          \* session -> where its process_query call stands
    active,      \* session -> the agent that receives the model's turns
    transcript,  \* session -> the session transcript
    cycles,      \* session -> Thinking->Dispatching cycles so far
    queue,       \* session -> tool calls of the current turn not yet invoked
    awaiting,    \* session -> the invocation whose result it waits for
    error,       \* session -> the exception process_query raised ("none" if none)
    wire,        \* requests and responses in flight between sessions and tool servers
    \* ---- the HTTP layer, Logger and PerformanceMonitor (ChatSpec, LogSpec)
    arrivals,    \* requests the middleware has given a request id to
    clock,       \* log entries written so far: the timestamp of the latest one
    logs,        \* Logger.logs
    metrics,     \* PerformanceMonitor.metrics: operation -> its samples
    chat,        \* chat call -> where it stands, its request id and message length
    reply,       \* chat call -> the HTTP response it was given
    recent       \* latest answer of GET /api/logs

serverVars == <<prog, eof, crashed, served, lastLine, lastOut, stdinErrors, listings>>
catalogVars == <<lifecycle, initialized, toolsSeen, statusSeen>>
sessionVars == <<pc, active, transcript, cycles, queue, awaiting, error, wire>>
backendVars == <<arrivals, clock, logs, metrics, chat, reply, recent>>
vars == <<serverVars, catalogVars, sessionVars, backendVars>>

\* ========================================================================
\* Bounds
\* ========================================================================
\* HTTP requests the middleware serves before the model stops following it
\* (each GET /api/logs writes three log entries: 335 of them overflow the buffer).
MaxRequests == 335
\* Lines a server reads before the model stops following it.
MaxLines == 3
\* The step budget the tool-calling loop runs under.
StepBudget == 2

\* ========================================================================
\* JSON values as json.loads hands them to the servers
\* ========================================================================
\* A number literal; h counts halves, so h = 1 is 0.5 and h = 4 is 2.
JNum(h) == [t |-> "num", h |-> h]
\* The float literal 1e308 (finite, close to the largest double).
JBig == [t |-> "big", h |-> 0]
\* An integer literal too large for a double (1 followed by 400 zeros).
JHuge == [t |-> "hugeint", h |-> 0]
\* The string "abc".
JStr == [t |-> "str", h |-> 0]
\* null
JNull == [t |-> "null", h |-> 0]
\* The key is missing from the object.
Absent == [t |-> "absent", h |-> 0]

Floats == {JNum(h) : h \in {-2, 0, 1, 4}} \cup {JBig}
FirstOperands == Floats \cup {JHuge, JStr, JNull, Absent}
SecondOperands == Floats \cup {JStr, Absent}

IsZero(x) == x.t = "num" /\ x.h = 0
Lt0(x) == x.t = "num" /\ x.h < 0
NonInteger(x) == x.t = "num" /\ x.h % 2 # 0
AbsGt1(x) == x.t = "big" \/ (x.t = "num" /\ (x.h > 2 \/ x.h < -2))

\* float(v): the value, or the exception the conversion raises.
PyFloat(v) ==
    CASE v.t \in {"num", "big"} -> [exc |-> "none", val |-> v]
      [] v.t = "hugeint" -> [exc |-> "OverflowError", val |-> v]
      [] v.t = "str" -> [exc |-> "ValueError", val |-> v]
      [] OTHER -> [exc |-> "TypeError", val |-> v]

\* arguments.get(key, 0) followed by float(): a missing key reads as 0.
FloatArg(arguments, key) ==
    PyFloat(IF arguments[key] = Absent THEN JNum(0) ELSE arguments[key])

\* math.pow(x, y) on floats: the exception it raises, if any.
MathPow(x, y) ==
    IF (Lt0(x) /\ NonInteger(y)) \/ (IsZero(x) /\ Lt0(y)) THEN "ValueError"
    ELSE IF (AbsGt1(x) /\ y.t = "big") \/ (x.t = "big" /\ y.t = "num" /\ y.h >= 3)
         THEN "OverflowError"
         ELSE "none"

\* ========================================================================
\* Request lines
\* ========================================================================
NoArgs == [dict |-> TRUE, a |-> Absent, b |-> Absent, base |-> Absent,
           exponent |-> Absent, value |-> Absent, message |-> Absent]
\* "arguments" that is valid JSON but no object (a list).
ListArgs == [NoArgs EXCEPT !.dict = FALSE]
ArgsAB(x, y) == [NoArgs EXCEPT !.a = x, !.b = y]
ArgsBE(x, y) == [NoArgs EXCEPT !.base = x, !.exponent = y]
ArgsV(x) == [NoArgs EXCEPT !.value = x]
ArgsM(x) == [NoArgs EXCEPT !.message = x]

CalculatorTools == {"add", "subtract", "multiply", "divide", "power", "sqrt", "modulo", "abs"}
LocalTools == {"echo"}
\* Tool names a client may send: every advertised one, an unknown one, and none.
ToolNames == CalculatorTools \cup LocalTools \cup {"nope", "None"}

ArgsFor(name) ==
    {NoArgs, ListArgs} \cup
    CASE name \in {"add", "subtract", "multiply", "divide", "modulo"} ->
            {ArgsAB(x, y) : x \in FirstOperands, y \in SecondOperands}
      [] name = "power" -> {ArgsBE(x, y) : x \in FirstOperands, y \in SecondOperands}
      [] name \in {"sqrt", "abs"} -> {ArgsV(x) : x \in FirstOperands}
      [] name = "echo" -> {ArgsM(x) : x \in {JStr, JNull}}
      [] OTHER -> {ArgsAB(JNum(4), JNum(4))}

\* "params" missing from the request (request.get("params", {}) gives {}).
NoParams == [kind |-> "dict", name |-> "None", arguments |-> NoArgs]
\* "params" that is valid JSON but no object (a list or null).
ListParams == [kind |-> "nondict", name |-> "None", arguments |-> NoArgs]
CallParams(name, arguments) == [kind |-> "dict", name |-> name, arguments |-> arguments]

Methods == {"initialize", "tools/list", "tools/call", "notifications/initialized", "None"}
\* "None": the request has no "id" member (request.get("id") gives None).
Ids == {"1", "2", "None"}

\* A line that is not JSON.
MalformedLine == [json |-> "malformed", id |-> "None", method |-> "None", params |-> NoParams]
\* A line whose bytes are no text in UTF-8 (the bytes ff fe).
UndecodableLine == [json |-> "undecodable", id |-> "None", method |-> "None", params |-> NoParams]
\* A line that is valid JSON but no object (an array).
ArrayLine == [json |-> "array", id |-> "None", method |-> "None", params |-> NoParams]
Request(id, method, params) == [json |-> "object", id |-> id, method |-> method, params |-> params]

Lines ==
    {MalformedLine, UndecodableLine, ArrayLine}
    \cup {Request(id, m, p) : id \in Ids, m \in Methods,
                              p \in {NoParams, ListParams, CallParams("add", ArgsAB(JNum(4), JNum(4)))}}
    \cup UNION {{Request("1", "tools/call", CallParams(n, args)) : args \in ArgsFor(n)} : n \in ToolNames}

\* ========================================================================
\* Responses
\* ========================================================================
MethodNotFound == -32601
InvalidParams == -32602
InternalError == -32603

NoFloat == JNum(0)
\* {"jsonrpc": "2.0", "id": id, "result": ...}; kind and text are the heading and
\* the emphasised sentence of a tool's Markdown text, x and y the operands it
\* prints (the computed number is left out: nothing below reads it).
Result(id, kind, text, x, y) ==
    [id |-> id, type |-> "result", code |-> 0, kind |-> kind, text |-> text,
     x |-> x, y |-> y, tools |-> {}]
\* {"jsonrpc": "2.0", "id": id, "error": {"code": code, "message": text}}
Error(id, code, text) ==
    [id |-> id, type |-> "error", code |-> code, kind |-> "error", text |-> text,
     x |-> NoFloat, y |-> NoFloat, tools |-> {}]

\* What a piece of code did: the messages it sent and the exception it left with.
Sent(msgs) == [out |-> msgs, exc |-> "none"]
Raised(e) == [out |-> <<>>, exc |-> e]

Tool(name, description, required) ==
    [name |-> name, description |-> description, required |-> required]

\* ========================================================================
\* mcp-servers/calculator-server.py
\* ========================================================================
Calc_handle_initialize(request_id) ==
    Sent(<<Result(request_id, "initialize", "calculator-server", NoFloat, NoFloat)>>)

Calc_tools ==
    { Tool("add", "Add two numbers together", <<"a", "b">>),
      Tool("subtract", "Subtract second number from first number", <<"a", "b">>),
      Tool("multiply", "Multiply two numbers together", <<"a", "b">>),
      Tool("divide", "Divide first number by second number", <<"a", "b">>),
      Tool("power", "Raise a number to a power (a^b)", <<"base", "exponent">>),
      Tool("sqrt", "Calculate the square root of a number", <<"value">>),
      Tool("modulo", "Calculate the remainder of division (a % b)", <<"a", "b">>),
      Tool("abs", "Calculate the absolute value of a number", <<"value">>) }

\* A faulty variant: the list depends on the request (abs is left out for id 2).
ListToolsByRequest(request_id) ==
    Sent(<<[Result(request_id, "tools", "", NoFloat, NoFloat) EXCEPT
                !.tools = {t \in Calc_tools : request_id # "2" \/ t.name # "abs"}]>>)
Calc_handle_list_tools(request_id) ==
    Sent(<<[Result(request_id, "tools", "", NoFloat, NoFloat) EXCEPT !.tools = Calc_tools]>>)

Ok == "Calculation completed successfully"

\* A faulty variant: divide without the b == 0 test.
DivideNoZeroCheck(id, a, b) ==
    IF IsZero(b) THEN Raised("ZeroDivisionError")
    ELSE Sent(<<Result(id, "Division Result", Ok, a, b)>>)
\* divide as written (lines 208-215).
Calc_divide(id, a, b) ==
    IF IsZero(b) THEN Sent(<<Result(id, "Division Error", "Cannot divide by zero", a, b)>>)
    ELSE Sent(<<Result(id, "Division Result", Ok, a, b)>>)

Calc_modulo(id, a, b) ==
    IF IsZero(b)
    THEN Sent(<<Result(id, "Modulo Error", "Cannot calculate modulo with divisor zero", a, b)>>)
    ELSE Sent(<<Result(id, "Modulo Result", Ok, a, b)>>)

Calc_power(id, base, exponent) ==
    IF MathPow(base, exponent) # "none" THEN Raised(MathPow(base, exponent))
    ELSE Sent(<<Result(id, "Power Result", Ok, base, exponent)>>)

Calc_sqrt(id, value) ==
    IF Lt0(value)
    THEN Sent(<<Result(id, "Square Root Error",
                       "Cannot calculate square root of negative number", value, NoFloat)>>)
    ELSE Sent(<<Result(id, "Square Root Result", Ok, value, NoFloat)>>)

\* The body of handle_call_tool's try statement (lines 188-267).
Calc_try(id, tool_name, arguments) ==
    LET Binary(k1, k2, F(_, _)) ==
            IF ~arguments.dict THEN Raised("AttributeError")
            ELSE IF FloatArg(arguments, k1).exc # "none" THEN Raised(FloatArg(arguments, k1).exc)
            ELSE IF FloatArg(arguments, k2).exc # "none" THEN Raised(FloatArg(arguments, k2).exc)
            ELSE F(FloatArg(arguments, k1).val, FloatArg(arguments, k2).val)
        Unary(k, F(_)) ==
            IF ~arguments.dict THEN Raised("AttributeError")
            ELSE IF FloatArg(arguments, k).exc # "none" THEN Raised(FloatArg(arguments, k).exc)
            ELSE F(FloatArg(arguments, k).val)
        Add(a, b) == Sent(<<Result(id, "Addition Result", Ok, a, b)>>)
        Sub(a, b) == Sent(<<Result(id, "Subtraction Result", Ok, a, b)>>)
        Mul(a, b) == Sent(<<Result(id, "Multiplication Result", Ok, a, b)>>)
        Div(a, b) == Calc_divide(id, a, b)
        Pow(a, b) == Calc_power(id, a, b)
        Mod(a, b) == Calc_modulo(id, a, b)
        Sqrt(v) == Calc_sqrt(id, v)
        Abs(v) == Sent(<<Result(id, "Absolute Value Result", Ok, v, NoFloat)>>)
    IN  CASE tool_name = "add" -> Binary("a", "b", Add)
          [] tool_name = "subtract" -> Binary("a", "b", Sub)
          [] tool_name = "multiply" -> Binary("a", "b", Mul)
          [] tool_name = "divide" -> Binary("a", "b", Div)
          [] tool_name = "power" -> Binary("base", "exponent", Pow)
          [] tool_name = "sqrt" -> Unary("value", Sqrt)
          [] tool_name = "modulo" -> Binary("a", "b", Mod)
          [] tool_name = "abs" -> Unary("value", Abs)
          [] OTHER -> Sent(<<Error(id, MethodNotFound, "Unknown tool")>>)

\* The except clauses of handle_call_tool (lines 269-286).
\* A faulty variant: the except (ValueError, TypeError) clause is missing.
ExceptAllInternal(id, exc) == Sent(<<Error(id, InternalError, "Internal error")>>)
Calc_except(id, exc) ==
    IF exc \in {"ValueError", "TypeError"}
    THEN Sent(<<Error(id, InvalidParams, "Invalid parameters")>>)
    ELSE Sent(<<Error(id, InternalError, "Internal error")>>)

Calc_handle_call_tool(request_id, params) ==
    IF params.kind # "dict" THEN Raised("AttributeError")
    ELSE LET r == Calc_try(request_id, params.name, params.arguments)
         IN  IF r.exc = "none" THEN r ELSE Calc_except(request_id, r.exc)

\* One iteration of main's for loop, before its except clauses (lines 294-313).
Calc_dispatch(line) ==
    IF line.json \in {"malformed", "undecodable"} THEN Raised("JSONDecodeError")
    ELSE IF line.json # "object" THEN Raised("AttributeError")
    ELSE CASE line.method = "initialize" -> Calc_handle_initialize(line.id)
           [] line.method = "tools/list" -> Calc_handle_list_tools(line.id)
           [] line.method = "tools/call" -> Calc_handle_call_tool(line.id, line.params)
           [] OTHER -> Sent(<<Error(line.id, MethodNotFound, "Method not found")>>)

\* Every exception the handlers raise derives from Exception.
IsException(e) ==
    e \in {"JSONDecodeError", "AttributeError", "ValueError", "TypeError",
           "OverflowError", "ZeroDivisionError"}

\* main's except clauses (lines 314-317): JSONDecodeError, then Exception.
Calc_caught(e) == e = "JSONDecodeError" \/ IsException(e)

\* ========================================================================
\* mcp-servers/local-server.py
\* ========================================================================
Local_handle_initialize(request_id) ==
    Sent(<<Result(request_id, "initialize", "local-python-server", NoFloat, NoFloat)>>)

\* A faulty variant: the list names a tool handle_call_tool does not know.
AdvertisesAnotherTool == { Tool("nope", "Echo back the message", <<"message">>) }
Local_tools == { Tool("echo", "Echo back the message", <<"message">>) }

Local_handle_list_tools(request_id) ==
    Sent(<<[Result(request_id, "tools", "", NoFloat, NoFloat) EXCEPT !.tools = Local_tools]>>)

Local_handle_call_tool(request_id, params) ==
    IF params.kind # "dict" THEN Raised("AttributeError")
    ELSE IF params.name = "echo"
         THEN IF ~params.arguments.dict THEN Raised("AttributeError")
              ELSE Sent(<<Result(request_id, "echo", "[Local Python Server] Echo",
                                 params.arguments.message, NoFloat)>>)
         ELSE Sent(<<Error(request_id, MethodNotFound, "Unknown tool")>>)

Local_dispatch(line) ==
    IF line.json \in {"malformed", "undecodable"} THEN Raised("JSONDecodeError")
    ELSE IF line.json # "object" THEN Raised("AttributeError")
    ELSE CASE line.method = "initialize" -> Local_handle_initialize(line.id)
           [] line.method = "tools/list" -> Local_handle_list_tools(line.id)
           [] line.method = "tools/call" -> Local_handle_call_tool(line.id, line.params)
           [] OTHER -> Sent(<<Error(line.id, MethodNotFound, "Method not found")>>)

\* main's except clause (lines 114-115): Exception.
Local_caught(e) == IsException(e)

\* ========================================================================
\* The read loop of either server
\* ========================================================================
Dispatch(p, line) == IF p = "calculator" THEN Calc_dispatch(line) ELSE Local_dispatch(line)
Caught(p, e) == IF p = "calculator" THEN Calc_caught(e) ELSE Local_caught(e)

\* One iteration of `for line in sys.stdin`: what was written to stdout, and the
\* exception that left the loop ("none" when the iteration ended normally or its
\* exception was caught and reported on stderr).
Iteration(p, line) ==
    LET r == Dispatch(p, line)
    IN  IF r.exc # "none" /\ Caught(p, r.exc) THEN Sent(r.out) ELSE r

NoLine == [json |-> "none", id |-> "None", method |-> "None", params |-> NoParams]

\* `for line in sys.stdin` fetches the next line: the exception the decoding of
\* its bytes raises, outside the try statement. Bytes that are no UTF-8 text are
\* refused by the strict handler and read as lone surrogates by surrogateescape.
NextLine(errors, line) ==
    IF line.json = "undecodable" /\ errors = "strict" THEN "UnicodeDecodeError" ELSE "none"

\* The tools/list results among the messages written to stdout while line
\* number `at` was handled, reduced to their tool sets.
Listings(out, at) ==
    LET lists == SelectSeq(out, LAMBDA m : m.kind = "tools")
    IN  [i \in 1..Len(lists) |-> [at |-> at, tools |-> lists[i].tools]]

ReadLine(line) ==
    /\ ~eof /\ ~crashed
    /\ served < MaxLines
    /\ served' = served + 1
    /\ lastLine' = line
    /\ LET r == IF NextLine(stdinErrors, line) # "none"
                THEN Raised(NextLine(stdinErrors, line))
                ELSE Iteration(prog, line)
       IN  /\ lastOut' = r.out
           /\ crashed' = (r.exc # "none")
           /\ listings' = listings \o Listings(r.out, served + 1)
    /\ UNCHANGED <<prog, eof, stdinErrors>>

ReadAnyLine == \E line \in Lines : ReadLine(line)

EndOfInput ==
    /\ ~eof /\ ~crashed
    /\ eof' = TRUE
    /\ UNCHANGED <<prog, crashed, served, lastLine, lastOut, stdinErrors, listings>>

\* ========================================================================
\* Logger and PerformanceMonitor (backend/utils/logger.py)
\* ========================================================================
\* Logger.max_logs
max_logs == 1000
\* record_metric keeps the latest 100 samples of an operation.
max_samples == 100

Operations == {"http_request", "chat_endpoint", "agent_process_query"}

\* An exception: its class and what it was constructed with.
NoError == [name |-> "none", status_code |-> 0, message |-> ""]
Exc(name, message) == [name |-> name, status_code |-> 0, message |-> message]
HTTPException(status_code, detail) ==
    [name |-> "HTTPException", status_code |-> status_code, message |-> detail]
\* str(e): an HTTPException prints as "<status_code>: <detail>".
Str(e) ==
    IF e.name = "HTTPException" THEN ToString(e.status_code) \o ": " \o e.message
    ELSE e.message

\* Logger._format_log; the context is reduced to its request_id and operation.
Logger_format_log(timestamp, level, message, request_id, operation, err) ==
    [timestamp |-> timestamp, level |-> level, message |-> message,
     request_id |-> request_id, operation |-> operation,
     error |-> [name |-> err.name, message |-> Str(err)]]

\* A faulty variant: the entry just written is the one dropped.
EvictNewest(stored) ==
    IF Len(stored) > max_logs THEN SubSeq(stored, 1, Len(stored) - 1) ELSE stored
\* _write_log, lines 54-55: over max_logs entries, pop(0).
Logger_evict(stored) == IF Len(stored) > max_logs THEN Tail(stored) ELSE stored

\* Logger._write_log on the logger and monitor b = [clock, logs, metrics].
Logger_write_log(b, level, message, request_id, operation, err) ==
    [b EXCEPT !.clock = @ + 1,
              !.logs = Logger_evict(Append(@,
                  Logger_format_log(b.clock + 1, level, message, request_id, operation, err)))]

Logger_debug(b, message, operation) ==
    Logger_write_log(b, "DEBUG", message, 0, operation, NoError)
Logger_info(b, message, request_id) ==
    Logger_write_log(b, "INFO", message, request_id, "none", NoError)
Logger_error(b, message, request_id, err) ==
    Logger_write_log(b, "ERROR", message, request_id, "none", err)

\* seq[start:] as Python slices a list.
PySliceFrom(seq, start) ==
    LET from == IF start < 0
                THEN (IF start + Len(seq) < 0 THEN 0 ELSE start + Len(seq))
                ELSE (IF start > Len(seq) THEN Len(seq) ELSE start)
    IN  SubSeq(seq, from + 1, Len(seq))

\* Logger.get_recent_logs: self.logs[-count:]
Logger_get_recent_logs(stored, count) == PySliceFrom(stored, 0 - count)

\* PerformanceMonitor.record_metric
record_metric(b, operation, duration) ==
    LET samples == Append(b.metrics[operation], duration)
        kept == IF Len(samples) > max_samples THEN Tail(samples) ELSE samples
    IN  Logger_debug([b EXCEPT !.metrics[operation] = kept],
                     "Performance metric recorded", operation)

\* The end_timer closure start_timer(operation) returns. A duration is told
\* from every other by the call that started its timer: the sample is the
\* request id of that call.
end_timer(b, operation, started_by) == record_metric(b, operation, started_by)

\* The logger and the monitor as they are now.
Backend == [clock |-> clock, logs |-> logs, metrics |-> metrics]
Becomes(b) ==
    /\ clock' = b.clock
    /\ logs' = b.logs
    /\ metrics' = b.metrics

\* main.py has been imported: MCPManager() and AgentWrapper() each wrote a line.
Constructed ==
    Logger_info(
        Logger_info([clock |-> 0, logs |-> <<>>, metrics |-> [o \in Operations |-> <<>>]],
                    "MCPManager initialized with agents SDK", 0),
        "AgentWrapper initialized with agents SDK", 0)

\* ========================================================================
\* MCPManager (backend/mcp_manager.py) and the endpoints of backend/main.py
\* ========================================================================
\* MCPManager._setup_servers: the keys of self.servers.
Servers == {"calculator", "github", "atlassian"}

LifecycleStates == {"NotStarted", "Initializing", "Ready", "Degraded", "Terminated"}

NotAsked == [n \in Servers |-> [name |-> n, connected |-> FALSE]]

\* MCPManager.list_all_tools: one placeholder entry per configured server.
list_all_tools == {[name |-> "tools_from_" \o n, server |-> n] : n \in Servers}

\* MCPManager.get_server_status
get_server_status == [n \in Servers |-> [name |-> n, connected |-> TRUE]]

\* main.startup_event: initialize_servers only writes a log line.
StartupEvent ==
    /\ ~initialized
    /\ initialized' = TRUE
    /\ Becomes(Logger_info(Logger_info(Backend, "MCP servers ready for dynamic connection", 0),
                           "Startup sequence initiated", 0))
    /\ UNCHANGED <<lifecycle, toolsSeen, statusSeen>>

\* GET /api/tools
GetTools ==
    /\ toolsSeen' = [asked |-> TRUE, tools |-> list_all_tools]
    /\ UNCHANGED <<lifecycle, initialized, statusSeen>>

\* GET /api/servers (GET /api/health embeds the same mapping)
GetServers ==
    /\ statusSeen' = [asked |-> TRUE, status |-> get_server_status]
    /\ UNCHANGED <<lifecycle, initialized, toolsSeen>>

\* The subprocess behind a server entry moves through its lifecycle on its own;
\* nothing in MCPManager starts, watches or stops it. An answer of an endpoint
\* is kept only while the lifecycle it was given in lasts.
LifecycleStep(n, from, to) ==
    /\ lifecycle[n] \in from
    /\ lifecycle' = [lifecycle EXCEPT ![n] = to]
    /\ toolsSeen' = [asked |-> FALSE, tools |-> {}]
    /\ statusSeen' = [asked |-> FALSE, status |-> NotAsked]
    /\ UNCHANGED initialized

Spawn == \E n \in Servers : LifecycleStep(n, {"NotStarted"}, "Initializing")
HandshakeSucceeds == \E n \in Servers : LifecycleStep(n, {"Initializing"}, "Ready")
HandshakeFails == \E n \in Servers : LifecycleStep(n, {"Initializing"}, "Degraded")
ProcessExits == \E n \in Servers : LifecycleStep(n, {"Ready", "Degraded"}, "Terminated")

\* ========================================================================
\* Agents (backend/agent.py, backend/specialists/confluence.py)
\* ========================================================================
Agents == {"mcp_assistant", "confluence_researcher"}

\* MCPManager.get_all_servers: every session is handed the same server objects.
get_all_servers == Servers

\* Agent.mcp_servers: process_query gives both agents the manager's full list.
\* A faulty variant: the agents are also given a server the manager does not hold.
ServersAndLocal(agent) == get_all_servers \cup {"local"}
AgentServers(agent) == get_all_servers

\* Agent.handoffs: mcp_assistant may hand off to the specialist; the specialist is
\* built without handoffs.
\* Faulty variants: the specialist may hand back; mcp_assistant may hand off to anyone.
HandoffsBothWays(agent) ==
    IF agent = "mcp_assistant" THEN {"confluence_researcher"} ELSE {"mcp_assistant"}
HandoffsToAnyone(agent) ==
    IF agent = "mcp_assistant" THEN {"confluence_researcher", "mcp_assistant", "github_expert"}
    ELSE {}
AgentHandoffs(agent) ==
    IF agent = "mcp_assistant" THEN {"confluence_researcher"} ELSE {}

\* ========================================================================
\* Chat sessions: AgentWrapper.process_query around the tool-calling loop
\* ========================================================================
\* Chat requests in flight at the same time (main.py serves them concurrently
\* with one global MCPManager and one global AgentWrapper).
Sessions == {"s1", "s2"}

\* What the model may ask for in one turn: tool calls named here by the server
\* that owns the tool ("local" owns echo and is not configured in MCPManager).
CallBatches == { <<"calculator">>, <<"local">>, <<"calculator", "github", "atlassian">> }
\* Hand-off targets the model may name.
Targets == Agents \cup {"github_expert"}

Entry(type, agent, what, calls, sess, idx) ==
    [type |-> type, agent |-> agent, what |-> what, calls |-> calls, sess |-> sess, idx |-> idx]

NotWaiting == [server |-> "none", rid |-> 0]

IsPrefix(a, b) == Len(a) <= Len(b) /\ SubSeq(b, 1, Len(a)) = a

\* process_query up to Runner.run(agent, query): the run starts with mcp_assistant
\* on a transcript seeded with its instructions and the user's query.
ProcessQuery(s) ==
    /\ pc[s] = "Idle"
    /\ pc' = [pc EXCEPT ![s] = "Thinking"]
    /\ active' = [active EXCEPT ![s] = "mcp_assistant"]
    /\ transcript' = [transcript EXCEPT ![s] =
            << Entry("instructions", "mcp_assistant", "", <<>>, s, 0),
               Entry("user", "mcp_assistant", "query", <<>>, s, 0) >>]
    /\ UNCHANGED <<cycles, queue, awaiting, error, wire>>

\* The run raises: process_query logs the exception and raises it again.
Fail(s, e) ==
    /\ pc' = [pc EXCEPT ![s] = "Failed"]
    /\ error' = [error EXCEPT ![s] = e]

\* The budget is used up once StepBudget cycles have been dispatched.
\* A faulty variant: no budget.
NeverExhausted(c) == FALSE
BudgetExhausted(c) == c >= StepBudget

\* The model answers with its final text: process_query returns it.
ThinkFinal(s) ==
    /\ pc[s] = "Thinking"
    /\ pc' = [pc EXCEPT ![s] = "Done"]
    /\ transcript' = [transcript EXCEPT ![s] =
            Append(@, Entry("final", active[s], "", <<>>, s, 0))]
    /\ UNCHANGED <<active, cycles, queue, awaiting, error, wire>>

\* The model provider cannot be reached.
ThinkProviderDown(s) ==
    /\ pc[s] = "Thinking"
    /\ Fail(s, "ProviderUnavailableError")
    /\ UNCHANGED <<active, transcript, cycles, queue, awaiting, wire>>

\* The model asks for tool calls.
ThinkToolCalls(s, calls) ==
    /\ pc[s] = "Thinking"
    /\ IF BudgetExhausted(cycles[s])
       THEN /\ Fail(s, "StepBudgetExceededError")
            /\ UNCHANGED <<active, transcript, cycles, queue, awaiting, wire>>
       ELSE /\ pc' = [pc EXCEPT ![s] = "Dispatching"]
            /\ cycles' = [cycles EXCEPT ![s] = @ + 1]
            /\ transcript' = [transcript EXCEPT ![s] =
                    Append(@, Entry("tool_calls", active[s], "", calls, s, 0))]
            /\ queue' = [queue EXCEPT ![s] =
                    [i \in 1..Len(calls) |-> [server |-> calls[i], idx |-> i]]]
            /\ UNCHANGED <<active, awaiting, error, wire>>

\* The model asks for a hand-off: the target is verified against the active
\* agent's hand-off targets, then the switch is dispatched within the budget.
ThinkHandoff(s, target) ==
    /\ pc[s] = "Thinking"
    /\ IF target \notin AgentHandoffs(active[s])
       THEN /\ Fail(s, "HandoffNotAllowedError")
            /\ transcript' = [transcript EXCEPT ![s] =
                    Append(@, Entry("handoff_refused", active[s], target, <<>>, s, 0))]
            /\ UNCHANGED <<active, cycles, queue, awaiting, wire>>
       ELSE IF BudgetExhausted(cycles[s])
       THEN /\ Fail(s, "StepBudgetExceededError")
            /\ UNCHANGED <<active, transcript, cycles, queue, awaiting, wire>>
       ELSE /\ active' = [active EXCEPT ![s] = target]
            /\ cycles' = [cycles EXCEPT ![s] = @ + 1]
            /\ transcript' = [transcript EXCEPT ![s] =
                    Append(@, Entry("handoff", active[s], target, <<>>, s, 0))]
            /\ UNCHANGED <<pc, queue, awaiting, error, wire>>

\* A request id no invocation in flight to that server uses.
FreshRid(server) ==
    CHOOSE n \in 1..(Cardinality(Sessions) + 1) :
        /\ \A m \in wire : m.server = server => m.rid # n
        /\ \A k \in 1..(n - 1) : \E m \in wire : m.server = server /\ m.rid = k

\* The next call of the turn is resolved among the active agent's servers and
\* sent to its server.
DispatchSend(s) ==
    /\ pc[s] = "Dispatching"
    /\ LET call == Head(queue[s])
       IN  IF call.server \in AgentServers(active[s])
           THEN /\ pc' = [pc EXCEPT ![s] = "Awaiting"]
                /\ awaiting' = [awaiting EXCEPT ![s] =
                        [server |-> call.server, rid |-> FreshRid(call.server)]]
                /\ wire' = wire \cup {[server |-> call.server, rid |-> FreshRid(call.server),
                                       dir |-> "request", sess |-> s, idx |-> call.idx]}
                /\ UNCHANGED <<active, transcript, cycles, queue, error>>
           ELSE /\ Fail(s, "ToolNotPermittedError")
                /\ UNCHANGED <<active, transcript, cycles, queue, awaiting, wire>>

\* A tool server answers one of the requests it holds: the response carries the
\* request's id and the result of that very call.
ServerResponds(m) ==
    /\ m \in wire /\ m.dir = "request"
    /\ wire' = (wire \ {m}) \cup {[m EXCEPT !.dir = "response"]}
    /\ UNCHANGED <<pc, active, transcript, cycles, queue, awaiting, error>>

\* The response a session takes for the invocation it waits for.
\* A faulty variant: the request id is not compared.
AnyResponseOfServer(m, s) == m.dir = "response" /\ m.server = awaiting[s].server
Correlates(m, s) ==
    m.dir = "response" /\ m.server = awaiting[s].server /\ m.rid = awaiting[s].rid

\* The awaited result arrives and is appended to the transcript.
DispatchReceive(s, m) ==
    /\ pc[s] = "Awaiting"
    /\ m \in wire /\ Correlates(m, s)
    /\ wire' = wire \ {m}
    /\ transcript' = [transcript EXCEPT ![s] =
            Append(@, Entry("tool_result", active[s], m.server, <<>>, m.sess, m.idx))]
    /\ queue' = [queue EXCEPT ![s] = Tail(@)]
    /\ awaiting' = [awaiting EXCEPT ![s] = NotWaiting]
    /\ pc' = [pc EXCEPT ![s] = IF Len(queue[s]) = 1 THEN "Thinking" ELSE "Dispatching"]
    /\ UNCHANGED <<active, cycles, error>>

\* ========================================================================
\* The HTTP layer (backend/main.py)
\* ========================================================================
\* request_id_and_logging_middleware before and after call_next.
Middleware_before(b, request_id) == Logger_info(b, "Incoming request", request_id)
Middleware_after(b, request_id) ==
    Logger_info(end_timer(b, "http_request", request_id), "Request completed", request_id)

\* Chat calls in flight at the same time.
Chats == {"c1", "c2"}
\* len(request.message) of a chat call.
MessageLengths == {0, 2000, 2001}
\* What Runner.run may raise: the session-fatal errors.
RunErrors == { Exc("ProviderUnavailableError", "model provider unreachable"),
               Exc("StepBudgetExceededError", "step budget exceeded") }

NoChat == [stage |-> "none", request_id |-> 0, length |-> 0, raised |-> NoError]
NoReply == [status_code |-> 0, body |-> "none", error |-> "", request_id |-> 0,
            X_Request_ID |-> 0]
ChatResponse(request_id) ==
    [status_code |-> 200, body |-> "ChatResponse", error |-> "", request_id |-> request_id,
     X_Request_ID |-> 0]
\* JSONResponse(status_code=500, content=ErrorResponse(error=str(e), request_id=...))
ErrorResponse(request_id, e) ==
    [status_code |-> 500, body |-> "ErrorResponse", error |-> Str(e),
     request_id |-> request_id, X_Request_ID |-> 0]

\* chat's except clause up to its return (lines 134-136).
Chat_except(b, request_id, e) ==
    Logger_error(end_timer(b, "chat_endpoint", request_id),
                 "Chat processing failed", request_id, e)

\* fastapi_request.state.request_id: the id the middleware gave this request.
\* A faulty variant: the id the middleware gave last, to whichever request.
LatestRequestId(c) == arrivals
State_request_id(c) == chat[c].request_id

\* POST /api/chat arrives: the middleware, chat and process_query up to
\* `await Runner.run(agent, query)`, or up to the response when chat refuses
\* the message.
Chat(c, length) ==
    /\ chat[c].stage = "none"
    /\ LET request_id == arrivals + 1
           b1 == Logger_info(Middleware_before(Backend, request_id),
                             "Processing agentic chat request", request_id)
       IN  /\ arrivals' = request_id
           /\ IF length > 2000
              THEN LET e == HTTPException(400, "Message too long")
                       b2 == Middleware_after(Chat_except(b1, request_id, e), request_id)
                   IN  /\ chat' = [chat EXCEPT ![c] =
                               [stage |-> "responded", request_id |-> request_id,
                                length |-> length, raised |-> NoError]]
                       /\ reply' = [reply EXCEPT ![c] =
                               [ErrorResponse(request_id, e) EXCEPT !.X_Request_ID = request_id]]
                       /\ Becomes(b2)
              ELSE /\ chat' = [chat EXCEPT ![c] =
                           [stage |-> "running", request_id |-> request_id,
                            length |-> length, raised |-> NoError]]
                   /\ Becomes(Logger_info(b1, "Processing query using agents SDK", request_id))
                   /\ UNCHANGED reply
    /\ UNCHANGED recent

\* Runner.run returns: process_query returns its result, chat answers with a
\* ChatResponse, the middleware completes the request.
RunnerReturns(c) ==
    /\ chat[c].stage = "running"
    /\ LET request_id == State_request_id(c)
           b1 == end_timer(Backend, "agent_process_query", request_id)
           b2 == end_timer(b1, "chat_endpoint", request_id)
       IN  /\ chat' = [chat EXCEPT ![c].stage = "responded"]
           /\ reply' = [reply EXCEPT ![c] =
                   [ChatResponse(request_id) EXCEPT !.X_Request_ID = request_id]]
           /\ Becomes(Middleware_after(b2, request_id))
    /\ UNCHANGED <<arrivals, recent>>

\* Runner.run raises e: process_query logs it and raises it again, chat's except
\* clause answers with an ErrorResponse, the middleware completes the request.
RunnerRaises(c, e) ==
    /\ chat[c].stage = "running"
    /\ LET request_id == State_request_id(c)
           b1 == Logger_error(Backend, "Error in agents SDK execution", request_id, e)
           b2 == Chat_except(b1, request_id, e)
       IN  /\ chat' = [chat EXCEPT ![c].stage = "responded", ![c].raised = e]
           /\ reply' = [reply EXCEPT ![c] =
                   [ErrorResponse(request_id, e) EXCEPT !.X_Request_ID = request_id]]
           /\ Becomes(Middleware_after(b2, request_id))
    /\ UNCHANGED <<arrivals, recent>>

\* GET /api/logs?count=n: the middleware around get_logs.
Counts == {-1, 0, 1, 100, 1001}
GetLogs(count) ==
    /\ arrivals < MaxRequests
    /\ LET request_id == arrivals + 1
           b1 == Middleware_before(Backend, request_id)
       IN  /\ arrivals' = request_id
           /\ recent' = [asked |-> TRUE, count |-> count,
                         logs |-> Logger_get_recent_logs(b1.logs, count)]
           /\ Becomes(Middleware_after(b1, request_id))
    /\ UNCHANGED <<chat, reply>>

\* ========================================================================
\* Specifications
\* ========================================================================
ServerNext ==
    \/ ReadAnyLine /\ UNCHANGED <<catalogVars, sessionVars, backendVars>>
    \/ EndOfInput /\ UNCHANGED <<catalogVars, sessionVars, backendVars>>

\* One of the two server scripts has just been started; the backend is as
\* constructed and serves nothing.
ServerInit ==
    /\ prog \in {"calculator", "local"}
    /\ eof = FALSE
    /\ crashed = FALSE
    /\ served = 0
    /\ lastLine = NoLine
    /\ lastOut = <<>>
    /\ stdinErrors \in {"strict", "surrogateescape"}
    /\ listings = <<>>
    /\ lifecycle = [n \in Servers |-> "NotStarted"]
    /\ initialized = FALSE
    /\ toolsSeen = [asked |-> FALSE, tools |-> {}]
    /\ statusSeen = [asked |-> FALSE, status |-> NotAsked]
    /\ pc = [s \in Sessions |-> "Idle"]
    /\ active = [s \in Sessions |-> "mcp_assistant"]
    /\ transcript = [s \in Sessions |-> <<>>]
    /\ cycles = [s \in Sessions |-> 0]
    /\ queue = [s \in Sessions |-> <<>>]
    /\ awaiting = [s \in Sessions |-> NotWaiting]
    /\ error = [s \in Sessions |-> "none"]
    /\ wire = {}
    /\ arrivals = 0
    /\ clock = Constructed.clock
    /\ logs = Constructed.logs
    /\ metrics = Constructed.metrics
    /\ chat = [c \in Chats |-> NoChat]
    /\ reply = [c \in Chats |-> NoReply]
    /\ recent = [asked |-> FALSE, count |-> 0, logs |-> <<>>]

\* One tool server reading its input.
ServerSpec == ServerInit /\ [][ServerNext]_vars

CatalogNext ==
    \/ StartupEvent /\ UNCHANGED <<serverVars, sessionVars, arrivals, chat, reply, recent>>
    \/ GetTools /\ UNCHANGED <<serverVars, sessionVars, backendVars>>
    \/ GetServers /\ UNCHANGED <<serverVars, sessionVars, backendVars>>
    \/ Spawn /\ UNCHANGED <<serverVars, sessionVars, backendVars>>
    \/ HandshakeSucceeds /\ UNCHANGED <<serverVars, sessionVars, backendVars>>
    \/ HandshakeFails /\ UNCHANGED <<serverVars, sessionVars, backendVars>>
    \/ ProcessExits /\ UNCHANGED <<serverVars, sessionVars, backendVars>>

\* main.py has been imported: MCPManager() and AgentWrapper() are constructed,
\* no subprocess was started, no request was served.
CatalogInit ==
    /\ prog = "calculator"
    /\ eof = FALSE
    /\ crashed = FALSE
    /\ served = 0
    /\ lastLine = NoLine
    /\ lastOut = <<>>
    /\ stdinErrors = "strict"
    /\ listings = <<>>
    /\ lifecycle = [n \in Servers |-> "NotStarted"]
    /\ initialized = FALSE
    /\ toolsSeen = [asked |-> FALSE, tools |-> {}]
    /\ statusSeen = [asked |-> FALSE, status |-> NotAsked]
    /\ pc = [s \in Sessions |-> "Idle"]
    /\ active = [s \in Sessions |-> "mcp_assistant"]
    /\ transcript = [s \in Sessions |-> <<>>]
    /\ cycles = [s \in Sessions |-> 0]
    /\ queue = [s \in Sessions |-> <<>>]
    /\ awaiting = [s \in Sessions |-> NotWaiting]
    /\ error = [s \in Sessions |-> "none"]
    /\ wire = {}
    /\ arrivals = 0
    /\ clock = Constructed.clock
    /\ logs = Constructed.logs
    /\ metrics = Constructed.metrics
    /\ chat = [c \in Chats |-> NoChat]
    /\ reply = [c \in Chats |-> NoReply]
    /\ recent = [asked |-> FALSE, count |-> 0, logs |-> <<>>]

\* The backend's manager and its observability endpoints.
CatalogSpec == CatalogInit /\ [][CatalogNext]_vars

Next ==
    \/ \E s \in Sessions : ProcessQuery(s) /\ UNCHANGED <<serverVars, catalogVars, backendVars>>
    \/ \E s \in Sessions : ThinkFinal(s) /\ UNCHANGED <<serverVars, catalogVars, backendVars>>
    \/ \E s \in Sessions : ThinkProviderDown(s) /\ UNCHANGED <<serverVars, catalogVars, backendVars>>
    \/ \E s \in Sessions, calls \in CallBatches :
            ThinkToolCalls(s, calls) /\ UNCHANGED <<serverVars, catalogVars, backendVars>>
    \/ \E s \in Sessions, target \in Targets :
            ThinkHandoff(s, target) /\ UNCHANGED <<serverVars, catalogVars, backendVars>>
    \/ \E s \in Sessions : DispatchSend(s) /\ UNCHANGED <<serverVars, catalogVars, backendVars>>
    \/ \E m \in wire : ServerResponds(m) /\ UNCHANGED <<serverVars, catalogVars, backendVars>>
    \/ \E s \in Sessions, m \in wire :
            DispatchReceive(s, m) /\ UNCHANGED <<serverVars, catalogVars, backendVars>>

Init ==
    /\ prog = "calculator"
    /\ eof = FALSE
    /\ crashed = FALSE
    /\ served = 0
    /\ lastLine = NoLine
    /\ lastOut = <<>>
    /\ stdinErrors = "strict"
    /\ listings = <<>>
    /\ lifecycle = [n \in Servers |-> "NotStarted"]
    /\ initialized = FALSE
    /\ toolsSeen = [asked |-> FALSE, tools |-> {}]
    /\ statusSeen = [asked |-> FALSE, status |-> NotAsked]
    /\ pc = [s \in Sessions |-> "Idle"]
    /\ active = [s \in Sessions |-> "mcp_assistant"]
    /\ transcript = [s \in Sessions |-> <<>>]
    /\ cycles = [s \in Sessions |-> 0]
    /\ queue = [s \in Sessions |-> <<>>]
    /\ awaiting = [s \in Sessions |-> NotWaiting]
    /\ error = [s \in Sessions |-> "none"]
    /\ wire = {}
    /\ arrivals = 0
    /\ clock = Constructed.clock
    /\ logs = Constructed.logs
    /\ metrics = Constructed.metrics
    /\ chat = [c \in Chats |-> NoChat]
    /\ reply = [c \in Chats |-> NoReply]
    /\ recent = [asked |-> FALSE, count |-> 0, logs |-> <<>>]

\* Concurrent chat sessions.
Spec == Init /\ [][Next]_vars

ChatNext ==
    \/ \E c \in Chats, length \in MessageLengths :
            Chat(c, length) /\ UNCHANGED <<serverVars, catalogVars, sessionVars>>
    \/ \E c \in Chats : RunnerReturns(c) /\ UNCHANGED <<serverVars, catalogVars, sessionVars>>
    \/ \E c \in Chats, e \in RunErrors :
            RunnerRaises(c, e) /\ UNCHANGED <<serverVars, catalogVars, sessionVars>>

ChatInit ==
    /\ prog = "calculator"
    /\ eof = FALSE
    /\ crashed = FALSE
    /\ served = 0
    /\ lastLine = NoLine
    /\ lastOut = <<>>
    /\ stdinErrors = "strict"
    /\ listings = <<>>
    /\ lifecycle = [n \in Servers |-> "NotStarted"]
    /\ initialized = FALSE
    /\ toolsSeen = [asked |-> FALSE, tools |-> {}]
    /\ statusSeen = [asked |-> FALSE, status |-> NotAsked]
    /\ pc = [s \in Sessions |-> "Idle"]
    /\ active = [s \in Sessions |-> "mcp_assistant"]
    /\ transcript = [s \in Sessions |-> <<>>]
    /\ cycles = [s \in Sessions |-> 0]
    /\ queue = [s \in Sessions |-> <<>>]
    /\ awaiting = [s \in Sessions |-> NotWaiting]
    /\ error = [s \in Sessions |-> "none"]
    /\ wire = {}
    /\ arrivals = 0
    /\ clock = Constructed.clock
    /\ logs = Constructed.logs
    /\ metrics = Constructed.metrics
    /\ chat = [c \in Chats |-> NoChat]
    /\ reply = [c \in Chats |-> NoReply]
    /\ recent = [asked |-> FALSE, count |-> 0, logs |-> <<>>]

\* Concurrent calls of POST /api/chat, the run of each reduced to its outcome.
ChatSpec == ChatInit /\ [][ChatNext]_vars

LogNext ==
    \E count \in Counts : GetLogs(count) /\ UNCHANGED <<serverVars, catalogVars, sessionVars>>

LogInit ==
    /\ prog = "calculator"
    /\ eof = FALSE
    /\ crashed = FALSE
    /\ served = 0
    /\ lastLine = NoLine
    /\ lastOut = <<>>
    /\ stdinErrors = "strict"
    /\ listings = <<>>
    /\ lifecycle = [n \in Servers |-> "NotStarted"]
    /\ initialized = FALSE
    /\ toolsSeen = [asked |-> FALSE, tools |-> {}]
    /\ statusSeen = [asked |-> FALSE, status |-> NotAsked]
    /\ pc = [s \in Sessions |-> "Idle"]
    /\ active = [s \in Sessions |-> "mcp_assistant"]
    /\ transcript = [s \in Sessions |-> <<>>]
    /\ cycles = [s \in Sessions |-> 0]
    /\ queue = [s \in Sessions |-> <<>>]
    /\ awaiting = [s \in Sessions |-> NotWaiting]
    /\ error = [s \in Sessions |-> "none"]
    /\ wire = {}
    /\ arrivals = 0
    /\ clock = Constructed.clock
    /\ logs = Constructed.logs
    /\ metrics = Constructed.metrics
    /\ chat = [c \in Chats |-> NoChat]
    /\ reply = [c \in Chats |-> NoReply]
    /\ recent = [asked |-> FALSE, count |-> 0, logs |-> <<>>]

\* Calls of GET /api/logs, one after the other.
LogSpec == LogInit /\ [][LogNext]_vars


\* ========================================================================
\* Claims about the tool servers (checked under ServerSpec)
\* ========================================================================
IsCall(line) == line.json = "object" /\ line.method = "tools/call" /\ line.params.kind = "dict"
DivideByZero(line) ==
    /\ IsCall(line) /\ line.params.name = "divide"
    /\ line.params.arguments.dict /\ line.params.arguments.b = JNum(0)
AnsweredDivisionByZero ==
    /\ Len(lastOut) = 1
    /\ lastOut[1].type = "result" /\ lastOut[1].text = "Cannot divide by zero"
    /\ lastOut[1].id = lastLine.id
    /\ ~crashed

\* C8 as stated: every divide call with b = 0 is answered with a result whose text
\* signals the division by zero, never with a JSON-RPC error, and the server
\* goes on serving.
C8_AnyDivideByZeroIsAResult ==
    (prog = "calculator" /\ DivideByZero(lastLine)) => AnsweredDivisionByZero

\* C8 as amended: a divide call with b = 0 whose a is missing or a number a float
\* can hold is answered with one result carrying the request's id whose text is
\* "Cannot divide by zero", and the read loop is still alive afterwards.
C8_DivideByZeroIsAResult ==
    (/\ prog = "calculator" /\ DivideByZero(lastLine)
     /\ lastLine.params.arguments.a.t \in {"num", "big", "absent"})
    => AnsweredDivisionByZero

C8_Witness ==
    /\ prog = "calculator" /\ DivideByZero(lastLine)
    /\ lastLine.params.arguments.a = JNum(4)
    /\ AnsweredDivisionByZero
    /\ ~eof

\* C9: every line that is valid JSON gets exactly one response, with the id of
\* the request, and no response carries another id.
C9_OneResponsePerValidLine ==
    lastLine.json \in {"object", "array"} =>
        /\ Len(lastOut) = 1
        /\ \A i \in 1..Len(lastOut) : lastOut[i].id = lastLine.id

\* The code the calculator must answer a call of one of its tools with
\* (0: a result), read off the arguments: the first operand float() refuses
\* decides, then the operation.
FirstRefusal(arguments, keys) ==
    LET bad == {i \in 1..Len(keys) : FloatArg(arguments, keys[i]).exc # "none"}
    IN  IF bad = {} THEN "none"
        ELSE FloatArg(arguments, keys[CHOOSE i \in bad : \A j \in bad : i <= j]).exc
OperandKeys(name) ==
    CASE name = "power" -> <<"base", "exponent">>
      [] name \in {"sqrt", "abs"} -> <<"value">>
      [] OTHER -> <<"a", "b">>
PowerFailure(arguments) ==
    MathPow(FloatArg(arguments, "base").val, FloatArg(arguments, "exponent").val)
AmendedCode(name, arguments) ==
    IF ~arguments.dict THEN InternalError
    ELSE IF FirstRefusal(arguments, OperandKeys(name)) \in {"ValueError", "TypeError"}
         THEN InvalidParams
    ELSE IF FirstRefusal(arguments, OperandKeys(name)) # "none" THEN InternalError
    ELSE IF name = "power" /\ PowerFailure(arguments) = "ValueError" THEN InvalidParams
    ELSE IF name = "power" /\ PowerFailure(arguments) # "none" THEN InternalError
    ELSE 0
\* The same under the claim's reading: -32602 only when an argument cannot be
\* converted, -32603 for every other failure.
ClaimedCode(name, arguments) ==
    IF ~arguments.dict THEN InternalError
    ELSE IF FirstRefusal(arguments, OperandKeys(name)) \in {"ValueError", "TypeError"}
         THEN InvalidParams
    ELSE IF FirstRefusal(arguments, OperandKeys(name)) # "none" THEN InternalError
    ELSE IF name = "power" /\ PowerFailure(arguments) # "none" THEN InternalError
    ELSE 0

AnsweredWith(code) ==
    /\ Len(lastOut) = 1
    /\ lastOut[1].id = lastLine.id
    /\ lastOut[1].code = code
    /\ lastOut[1].type = IF code = 0 THEN "result" ELSE "error"

CalculatorCodes(Code(_, _)) ==
    (prog = "calculator" /\ lastLine.json = "object") =>
        /\ lastLine.method \notin {"initialize", "tools/list", "tools/call"}
              => AnsweredWith(MethodNotFound)
        /\ (IsCall(lastLine) /\ lastLine.params.name \notin CalculatorTools)
              => AnsweredWith(MethodNotFound)
        /\ (IsCall(lastLine) /\ lastLine.params.name \in CalculatorTools)
              => AnsweredWith(Code(lastLine.params.name, lastLine.params.arguments))

\* C10 as stated: unknown tool and unknown method give -32601, arguments that
\* cannot be converted to numbers give -32602, every other failure while
\* computing gives -32603, a successful call gives a result.
C10_CodesAsClaimed == CalculatorCodes(ClaimedCode)

\* C10 as amended: as stated, but a power call outside math.pow's domain (a
\* negative base with a fractional exponent, a zero base with a negative
\* exponent) is answered with -32602 as well; -32603 answers the remaining
\* failures of a call whose params is an object (arguments that are no object,
\* an integer too large for a float, a power that overflows).
C10_Codes == CalculatorCodes(AmendedCode)

C10_Witness ==
    /\ prog = "calculator" /\ IsCall(lastLine) /\ lastLine.params.name = "power"
    /\ lastLine.params.arguments = ArgsBE(JNum(-2), JNum(1))
    /\ AnsweredWith(InvalidParams)

NotJson(line) == line.json \in {"malformed", "undecodable"}

\* C11: a line that is not valid JSON never stops the read loop: the server
\* writes no response to it, it goes on to read the next line while there is
\* input, and the loop is left only at the end of the input, never by an
\* exception.
C11_MalformedLineNeverStopsTheLoop ==
    /\ ~crashed
    /\ NotJson(lastLine) =>
            /\ lastOut = <<>>
            /\ (~eof /\ served < MaxLines) => ENABLED ReadAnyLine

\* C12: every tools/list request gets one result, and all tools/list results a
\* server has written hold the same set of tool descriptors, whatever lines it
\* handled before or between them.
C12_DiscoveryIsIdempotent ==
    /\ \A i \in 1..Len(listings), j \in 1..Len(listings) : listings[i].tools = listings[j].tools
    /\ (lastLine.json = "object" /\ lastLine.method = "tools/list") =>
            /\ Len(lastOut) = 1 /\ lastOut[1].id = lastLine.id
            /\ listings # <<>> /\ lastOut[1].tools = listings[1].tools

\* The first and the third line asked for the tools, with another line between.
C12_Witness ==
    /\ Len(listings) = 2
    /\ listings[1].at = 1 /\ listings[2].at = 3 /\ served = 3
    /\ Cardinality(listings[2].tools) >= 1
    /\ lastLine.method = "tools/list" /\ lastLine.id = "2"

\* The names a server returns from tools/list, and the descriptor of one of them.
Advertised(p) == {t.name : t \in Dispatch(p, Request("1", "tools/list", NoParams)).out[1].tools}
Descriptor(p, name) ==
    CHOOSE t \in Dispatch(p, Request("1", "tools/list", NoParams)).out[1].tools : t.name = name
\* Every argument the descriptor requires is there and of the type its schema
\* names: a number (one of `numbers`) on the calculator, a string on the local server.
WellFormed(p, name, arguments, numbers) ==
    /\ arguments.dict
    /\ \A i \in 1..Len(Descriptor(p, name).required) :
            arguments[Descriptor(p, name).required[i]] \in
                (IF p = "calculator" THEN numbers ELSE {JStr})
AdvertisedIffCallable(numbers, Refused(_, _)) ==
    IsCall(lastLine) =>
        LET name == lastLine.params.name
            arguments == lastLine.params.arguments
        IN  /\ (/\ name \in Advertised(prog)
                /\ WellFormed(prog, name, arguments, numbers)
                /\ ~Refused(name, arguments)) => AnsweredWith(0)
            /\ name \notin Advertised(prog) => AnsweredWith(MethodNotFound)
NeverRefused(name, arguments) == FALSE
PowerRefused(name, arguments) ==
    prog = "calculator" /\ name = "power" /\ PowerFailure(arguments) # "none"

\* C16 as stated: a call with well-formed arguments (every required argument a
\* JSON number, a string for echo) is answered with a result if its tool name is
\* in the set the same server returns from tools/list, and a call of any other
\* name is answered with error -32601.
C16_AdvertisedIffCallableAsClaimed ==
    AdvertisedIffCallable(Floats \cup {JHuge}, NeverRefused)

\* C16 as amended: as stated for arguments that are numbers a float can hold,
\* except a power call whose operands math.pow refuses (a negative base with a
\* fractional exponent, a zero base with a negative exponent, an overflow).
C16_AdvertisedIffCallable == AdvertisedIffCallable(Floats, PowerRefused)

C16_Witness ==
    /\ prog = "local" /\ IsCall(lastLine) /\ lastLine.params.name = "echo"
    /\ lastLine.params.arguments = ArgsM(JStr)
    /\ "echo" \in Advertised(prog)
    /\ AnsweredWith(0)

\* ========================================================================
\* Claims about the manager's endpoints (checked under CatalogSpec)
\* ========================================================================
\* C6: the tool list never holds an entry of a server that is not Ready.
C6_ToolsOnlyOfReadyServers ==
    toolsSeen.asked => \A e \in toolsSeen.tools : lifecycle[e.server] = "Ready"

\* C7: a server is reported as connected only when it is Ready, that is after
\* its handshake and tools list succeeded.
C7_ConnectedOnlyWhenReady ==
    statusSeen.asked =>
        \A n \in Servers : statusSeen.status[n].connected => lifecycle[n] = "Ready"

\* ========================================================================
\* Claims about chat sessions (checked under Spec)
\* ========================================================================
DispatchTurns(t) == Cardinality({i \in 1..Len(t) : t[i].type \in {"tool_calls", "handoff"}})

\* C1: a session never runs more than StepBudget Thinking->Dispatching cycles,
\* and it fails with StepBudgetExceededError only after exactly StepBudget of
\* them, each recorded in its transcript.
C1_StepBudget ==
    \A s \in Sessions :
        /\ cycles[s] <= StepBudget
        /\ DispatchTurns(transcript[s]) = cycles[s]
        /\ error[s] = "StepBudgetExceededError" =>
                pc[s] = "Failed" /\ cycles[s] = StepBudget

\* A model that asked for tool calls on every turn ran into the budget.
C1_Witness ==
    \E s \in Sessions :
        /\ error[s] = "StepBudgetExceededError"
        /\ \A i \in 3..Len(transcript[s]) : transcript[s][i].type \in {"tool_calls", "tool_result"}
        /\ Cardinality({i \in 1..Len(transcript[s]) : transcript[s][i].type = "tool_calls"})
                = StepBudget

\* C2: in every transcript the results that follow a turn asking for calls
\* [A, B, C] are the results of this session's calls A, B, C in that order, with
\* nothing in between, and none is missing once the next turn is recorded.
C2_ResultsInRequestOrder ==
    \A s \in Sessions :
        LET t == transcript[s]
        IN  /\ \A i \in 1..Len(t) : t[i].type = "tool_result" =>
                  /\ t[i].sess = s
                  /\ \E p \in 1..(i - 1) :
                        /\ t[p].type = "tool_calls"
                        /\ \A k \in (p + 1)..(i - 1) : t[k].type = "tool_result"
                        /\ i - p <= Len(t[p].calls)
                        /\ t[i].idx = i - p
                        /\ t[i].what = t[p].calls[i - p]
            /\ \A p \in 1..Len(t), q \in 1..Len(t) :
                  (/\ p < q /\ t[p].type = "tool_calls" /\ t[q].type # "tool_result"
                   /\ \A k \in (p + 1)..(q - 1) : t[k].type = "tool_result")
                  => q - p - 1 = Len(t[p].calls)

\* Two sessions wait for the same server, both responses are in flight, and one
\* of them is in the middle of a three-call turn.
C2_Witness ==
    \E s \in Sessions, o \in Sessions :
        /\ s # o
        /\ pc[s] = "Awaiting" /\ pc[o] = "Awaiting"
        /\ awaiting[s].server = awaiting[o].server
        /\ \A x \in {s, o} : \E m \in wire : m.dir = "response" /\ m.sess = x
        /\ Len(queue[o]) = 1 /\ Head(queue[o]).idx = 3
        /\ transcript[o][Len(transcript[o])].type = "tool_result"

\* C3: no step of a session removes or changes an entry of its transcript, so
\* the specialist's turns after a hand-off are given everything recorded before
\* it; and after the hand-off only tools of the three configured servers are
\* invoked and no further hand-off is accepted: a call of another server's tool
\* fails the step and sends nothing.
C3_HandoffKeepsContextAndLimits ==
    /\ [](\A s \in Sessions : \A i \in 1..Len(transcript[s]) :
            LET e == transcript[s][i]
            IN  e.agent = "confluence_researcher" =>
                    /\ e.type = "tool_result" => e.what \in {"calculator", "github", "atlassian"}
                    /\ e.type # "handoff")
    /\ [][\A s \in Sessions :
            /\ pc[s] # "Idle" => IsPrefix(transcript[s], transcript'[s])
            /\ (/\ active[s] = "confluence_researcher" /\ pc[s] = "Dispatching"
                /\ pc'[s] # pc[s]
                /\ Head(queue[s]).server \notin {"calculator", "github", "atlassian"})
               => /\ pc'[s] = "Failed" /\ error'[s] = "ToolNotPermittedError"
                  /\ wire' = wire]_vars

\* The specialist, after a hand-off, asked for a tool of the local server and
\* was refused, with the whole transcript still there.
C3_Witness ==
    \E s \in Sessions :
        /\ active[s] = "confluence_researcher"
        /\ pc[s] = "Failed" /\ error[s] = "ToolNotPermittedError"
        /\ transcript[s][1].type = "instructions" /\ transcript[s][2].type = "user"
        /\ \E i \in 1..Len(transcript[s]) : transcript[s][i].type = "handoff"
        /\ transcript[s][Len(transcript[s])].calls = <<"local">>

\* C4: a hand-off to a target outside the active agent's hand-off targets
\* (for mcp_assistant anything but confluence_researcher, for
\* confluence_researcher anything) is never carried out: the session fails with
\* HandoffNotAllowedError and its active agent is the one that was asked.
C4_HandoffNotAllowed ==
    \A s \in Sessions : \A i \in 1..Len(transcript[s]) :
        LET e == transcript[s][i]
        IN  /\ e.type = "handoff" =>
                    e.agent = "mcp_assistant" /\ e.what = "confluence_researcher"
            /\ e.type = "handoff_refused" =>
                    /\ i = Len(transcript[s])
                    /\ pc[s] = "Failed" /\ error[s] = "HandoffNotAllowedError"
                    /\ active[s] = e.agent

C4_Witness ==
    \E s \in Sessions, o \in Sessions :
        /\ s # o
        /\ transcript[s] # <<>> /\ transcript[o] # <<>>
        /\ LET e == transcript[s][Len(transcript[s])]
               f == transcript[o][Len(transcript[o])]
           IN  /\ e.type = "handoff_refused" /\ e.agent = "confluence_researcher"
               /\ active[s] = "confluence_researcher" /\ error[s] = "HandoffNotAllowedError"
               /\ f.type = "handoff_refused" /\ f.agent = "mcp_assistant"
               /\ active[o] = "mcp_assistant" /\ error[o] = "HandoffNotAllowedError"

\* C5: a session has one active agent, and once a hand-off to the specialist is
\* recorded every later turn and result of the session belongs to the
\* specialist, which stays the active agent.
C5_HandoffIsOneWay ==
    \A s \in Sessions :
        /\ active[s] \in Agents
        /\ \A i \in 1..Len(transcript[s]) :
              transcript[s][i].type = "handoff" =>
                  /\ active[s] = transcript[s][i].what
                  /\ \A j \in (i + 1)..Len(transcript[s]) :
                        transcript[s][j].agent = transcript[s][i].what

C5_Witness ==
    \E s \in Sessions :
        /\ pc[s] = "Done" /\ active[s] = "confluence_researcher"
        /\ \E i \in 1..Len(transcript[s]) :
              /\ transcript[s][i].type = "handoff"
              /\ \E j \in (i + 1)..Len(transcript[s]) : transcript[s][j].type = "tool_calls"

\* ========================================================================
\* Claims about POST /api/chat (checked under ChatSpec)
\* ========================================================================
\* process_query was entered for the chat call: it wrote its first log line.
Entered(c) ==
    \E i \in 1..Len(logs) :
        /\ logs[i].message = "Processing query using agents SDK"
        /\ logs[i].request_id = chat[c].request_id
\* The samples of an operation taken by the timers of one request.
Samples(operation, request_id) ==
    Cardinality({i \in 1..Len(metrics[operation]) : metrics[operation][i] = request_id})

\* C13: a chat call is answered under the request id the middleware gave it, in
\* its body and in its X-Request-ID header; when its run raised an error the
\* body is an ErrorResponse whose error is that error's message; two chat
\* calls never have the same id, so no answer carries the id of another call.
C13_ErrorsCarryTheirRequestId ==
    \A c \in Chats :
        /\ chat[c].stage # "responded" => reply[c] = NoReply
        /\ chat[c].stage = "responded" =>
              /\ reply[c].request_id = chat[c].request_id
              /\ reply[c].X_Request_ID = chat[c].request_id
              /\ chat[c].raised # NoError =>
                    /\ reply[c].body = "ErrorResponse"
                    /\ reply[c].error = chat[c].raised.message
        /\ \A d \in Chats \ {c} :
              chat[d].stage # "none" => chat[d].request_id # chat[c].request_id

\* A call that arrived second failed while the first was still running.
C13_Witness ==
    \E c \in Chats, d \in Chats :
        /\ chat[d].stage = "running" /\ chat[d].request_id = 1
        /\ chat[c].stage = "responded" /\ chat[c].request_id = 2
        /\ chat[c].raised.name = "ProviderUnavailableError"
        /\ reply[c].error = "model provider unreachable" /\ reply[c].request_id = 2

\* C14: no timer of a chat call records two samples, and a call that has been
\* answered has recorded one sample for chat_endpoint and, when process_query
\* was entered for it, one for agent_process_query, whether it ended with a
\* final answer or with an error.
C14_OneSamplePerTimer ==
    \A c \in Chats :
        /\ \A o \in Operations : Samples(o, chat[c].request_id) <= 1
        /\ chat[c].stage = "responded" =>
              /\ Samples("chat_endpoint", chat[c].request_id) = 1
              /\ Entered(c) => Samples("agent_process_query", chat[c].request_id) = 1

\* C15: a chat call whose message is longer than 2000 characters is answered
\* with status 400 and process_query is never entered for it; for a message of
\* at most 2000 characters process_query is entered.
C15_LongMessageRejected ==
    \A c \in Chats :
        chat[c].stage # "none" =>
            IF chat[c].length > 2000
            THEN /\ chat[c].stage = "responded"
                 /\ reply[c].status_code = 400
                 /\ ~Entered(c)
            ELSE Entered(c)

\* ========================================================================
\* Claims about the log buffer (checked under LogSpec)
\* ========================================================================
\* C17: the buffer never holds more than max_logs = 1000 entries, and it holds
\* the entries written last, in the order they were written: entry i is the
\* one written Len(logs) - i writes before the latest.
C17_LogBufferKeepsTheLatest ==
    /\ Len(logs) <= 1000
    /\ Len(logs) = (IF clock < max_logs THEN clock ELSE max_logs)
    /\ \A i \in 1..Len(logs) : logs[i].timestamp = clock - Len(logs) + i

\* More than 1000 entries were written: the oldest ones are gone.
C17_Witness ==
    /\ clock > 1003
    /\ Len(logs) = 1000
    /\ logs[1].timestamp = clock - 999
    /\ logs[1000].message = "Request completed"

\* C18: the answer of get_recent_logs(count) holds the min(count, stored)
\* entries written last before the call, in write order (none for a count of
\* 0 or less). Two entries were written after the call: the sample of
\* http_request and "Request completed".
C18_RecentLogsAtMostCount ==
    recent.asked =>
        LET stored == IF clock - 2 < max_logs THEN clock - 2 ELSE max_logs
            n == IF recent.count <= 0 THEN 0
                 ELSE IF recent.count < stored THEN recent.count ELSE stored
        IN  /\ Len(recent.logs) = n
            /\ \A i \in 1..Len(recent.logs) : recent.logs[i].timestamp = clock - 2 - n + i

====
